---- MODULE Spec2Model ----
(***************************************************************************)
(* The interaction-and-ledger subsystem of the community feed backend      *)
(* (backend/feed): the like toggles post_like and comment_like run by      *)
(* concurrent request workers against the PostLike / CommentLike tables    *)
(* and the append-only KarmaEvent ledger.                                  *)
(*                                                                         *)
(* A worker's request is split at its database statements: the target      *)
(* lookup, the like insert or delete, the karma insert, the exit of the    *)
(* transaction.atomic() block (commit) and the count query that follows    *)
(* it.  Rows written inside the atomic block stay private to the worker    *)
(* (op, ev) until its commit applies them to the tables in one step.       *)
(*                                                                         *)
(* The read views are single steps: create_comment and the post detail     *)
(* with build_comment_tree (SpecThread runs them alone, on longer          *)
(* threads), and the leaderboard over the last 24 hours of the ledger      *)
(* (SpecBoard runs it on the ledgers of six accounts' posts).              *)
(***************************************************************************)
EXTENDS Integers, Sequences, FiniteSets

\* ---------------------------------------------------------------- bounds
MaxRequests == 3
MaxComments == 1
\* the clock runs from 0 to MaxTime hours in steps of TickHours
MaxTime == 36
TickHours == 12
\* the comments of a thread run
MaxThread == 4

\* ------------------------------------------------------- fixed world
\* User table; Users are the accounts that send the requests of the runs
Accounts == 1..6
Users == {1, 2}
\* the request workers of the server
Workers == {1, 2}
Kinds == {"post", "comment"}
Methods == {"POST", "DELETE"}
\* Post table: posts are created outside these views; every account has
\* written one post, whose id is the account's
PostIds == Accounts
PostAuthor(p) == p
\* ids a toggle request may name: post 1, which exists, and post 7, which
\* does not
PostNames == {1, 7}
\* ids a comment-thread request may name
ThreadPostNames == {1, 2, 7}
CommentNames == 1..(MaxComments + 1)
Names(kind) == IF kind = "post" THEN PostNames ELSE CommentNames
TargetIds == PostIds \cup PostNames \cup CommentNames
None == 0

VARIABLES
    comment,     \* Comment table: sequence of rows, a row's id is its index
    likes,       \* PostLike and CommentLike tables: rows per <<kind, id, user>>
    karmaEvent,  \* KarmaEvent table, in commit order
    now,         \* wall clock
    wk,          \* each worker's request and local variables
    issued,      \* requests received so far
    out          \* response of the request answered by the latest step

vars == <<comment, likes, karmaEvent, now, wk, issued, out>>

Pairs == Kinds \X TargetIds \X Users

\* ------------------------------------------------------------- tables
\* models.py Comment: post, author, parent (None for a root)
CommentExists(c) == c \in 1..Len(comment)

\* (mutant) post_like without its post lookup
ExistsAnyPost(kind, id) ==
    IF kind = "post" THEN TRUE ELSE CommentExists(id)

\* get_object_or_404(Post, id=post_id) / (Comment, id=comment_id) finds a row
Exists(kind, id) ==
    IF kind = "post" THEN id \in PostIds ELSE CommentExists(id)

\* (mutant) a comment's karma credited to the author of its post
AuthorOfPost(kind, id) ==
    IF kind = "post" THEN PostAuthor(id) ELSE PostAuthor(comment[id].post)

\* post.author / comment.author
Author(kind, id) ==
    IF kind = "post" THEN PostAuthor(id) ELSE comment[id].author

RECURSIVE SumOver(_, _)
SumOver(f, S) ==
    IF S = {} THEN 0
    ELSE LET x == CHOOSE y \in S : TRUE IN f[x] + SumOver(f, S \ {x})

\* PostLike.objects.filter(post=post).count()
LikeCount(kind, id) ==
    SumOver([u \in Users |-> likes[<<kind, id, u>>]], Users)

\* (mutant) the like tables without their UniqueConstraint
NoUniqueConstraint(p) == FALSE

\* uniq_post_like / uniq_comment_like: a row for the pair is already there
UniqueViolation(p) == likes[p] > 0

\* ------------------------------------------------------------- workers
Idle ==
    [pc |-> "idle", method |-> "POST", kind |-> "post", id |-> 1, user |-> 1,
     op |-> "none", ev |-> <<>>, liked |-> FALSE, deleted |-> 0,
     exc |-> "none", resp |-> [status |-> 0, liked |-> FALSE, like_count |-> 0],
     seen |-> [ledger |-> 0, rows |-> 0, count |-> 0, likes |-> <<>>],
     commit |-> 0]

PairOf(w) == <<wk[w].kind, wk[w].id, wk[w].user>>

\* (mutant) uniqueness checked against committed rows only: a racing insert
\* of the same pair is not waited for
NeverLocked(w, p) == FALSE

\* the unique index serialises writers of one pair: another transaction holds
\* an uncommitted insert or delete of the pair's row
LockedByOther(w, p) ==
    \E v \in Workers \ {w} : wk[v].op # "none" /\ PairOf(v) = p

\* the response of the latest read or create_comment request, with the
\* arguments of the request
NoOut == [view |-> "none", arg |-> <<>>, status |-> 0, body |-> <<>>]

Init ==
    /\ comment = <<>>
    /\ likes = [p \in Pairs |-> 0]
    /\ karmaEvent = <<>>
    /\ now = 0
    /\ wk = [w \in Workers |-> Idle]
    /\ issued = 0
    /\ out = NoOut

\* history, kept for stating the properties: the tables as the request found
\* them (ledger length, rows of its pair, like count of its target, the like
\* tables); the worker's commit field is the ledger length its own commit
\* leaves
Seen(kind, id, user) ==
    [ledger |-> Len(karmaEvent), rows |-> likes[<<kind, id, user>>],
     count |-> LikeCount(kind, id), likes |-> likes]

\* one more request of the run's budget
Request ==
    /\ issued < MaxRequests
    /\ issued' = issued + 1

\* the worker has no request in hand (its last response, if any, is sent)
Free(w) == wk[w].pc \in {"idle", "done"}

\* get_object_or_404, then dispatch on request.method; the request goes to
\* the first free worker (workers are interchangeable)
Receive(w, method, kind, id, user) ==
    /\ Free(w)
    /\ \A v \in Workers : v < w => ~Free(v)
    /\ Request
    /\ wk' = [wk EXCEPT ![w] =
            IF Exists(kind, id)
            THEN [Idle EXCEPT !.method = method, !.kind = kind, !.id = id,
                              !.user = user,
                              !.seen = Seen(kind, id, user),
                              !.pc = IF method = "POST" THEN "insert_like"
                                     ELSE "delete_like"]
            ELSE [Idle EXCEPT !.method = method, !.kind = kind, !.id = id,
                              !.user = user, !.pc = "done",
                              !.resp = [status |-> 404, liked |-> FALSE,
                                        like_count |-> 0]]]
    /\ out' = NoOut
    /\ UNCHANGED <<comment, likes, karmaEvent, now>>

\* ------------------------------------------------------------ karma rows
\* the literals of the KarmaEvent.objects.create calls
PostLikeDelta == 5
PostUnlikeDelta == -5
CommentLikeDelta == 1
CommentUnlikeDelta == -1

EventType(kind, method) ==
    IF kind = "post"
    THEN (IF method = "POST" THEN "post_like" ELSE "post_unlike")
    ELSE (IF method = "POST" THEN "comment_like" ELSE "comment_unlike")

\* (mutant) the unlike rows written with the like's delta
DeltaUnsigned(kind, method) ==
    IF kind = "post" THEN PostLikeDelta ELSE CommentLikeDelta

Delta(kind, method) ==
    IF kind = "post"
    THEN (IF method = "POST" THEN PostLikeDelta ELSE PostUnlikeDelta)
    ELSE (IF method = "POST" THEN CommentLikeDelta ELSE CommentUnlikeDelta)

\* (mutant) the target written to the other foreign key
NewKarmaEventSwapped(kind, method, id, actor) ==
    [user |-> Author(kind, id),
     actor |-> actor,
     event_type |-> EventType(kind, method),
     delta |-> Delta(kind, method),
     post |-> IF kind = "comment" THEN id ELSE None,
     comment |-> IF kind = "post" THEN id ELSE None,
     created_at |-> now]

\* the row KarmaEvent.objects.create(...) builds; created_at is auto_now_add
NewKarmaEvent(kind, method, id, actor) ==
    [user |-> Author(kind, id),
     actor |-> actor,
     event_type |-> EventType(kind, method),
     delta |-> Delta(kind, method),
     post |-> IF kind = "post" THEN id ELSE None,
     comment |-> IF kind = "comment" THEN id ELSE None,
     created_at |-> now]

\* CheckConstraint karmaevent_exactly_one_target
ExactlyOneTarget(e) ==
    \/ (e.post # None /\ e.comment = None)
    \/ (e.post = None /\ e.comment # None)

\* ------------------------------------------------------- exceptions
\* (mutant) no handler around the creates
CaughtNever(w, e) == FALSE

\* try ... except IntegrityError around the two creates of the POST branch;
\* the DELETE branch has no handler
Caught(w, e) == wk[w].method = "POST" /\ e \in {"unique", "integrity"}

Error500 == [status |-> 500, liked |-> FALSE, like_count |-> 0]

\* A statement of worker w raised e.  Caught: liked = True and the atomic
\* block exits normally; keep says whether the rows the transaction wrote
\* before the failed statement are still in it.  Not caught: the exception
\* leaves the atomic block, which rolls back, and the request fails.
Raised(w, e, keep) ==
    IF Caught(w, e)
    THEN [wk[w] EXCEPT !.liked = TRUE, !.exc = e, !.pc = "commit",
                       !.op = IF keep THEN @ ELSE "none"]
    ELSE [wk[w] EXCEPT !.op = "none", !.ev = <<>>, !.exc = e,
                       !.pc = "done", !.resp = Error500]

\* ------------------------------------------------------------ toggles
\* PostLike.objects.create / CommentLike.objects.create
InsertLike(w) ==
    /\ wk[w].pc = "insert_like"
    /\ ~LockedByOther(w, PairOf(w))
    /\ wk' = [wk EXCEPT ![w] =
            IF UniqueViolation(PairOf(w))
            THEN Raised(w, "unique", TRUE)
            ELSE [@ EXCEPT !.op = "ins", !.pc = "create_karma"]]
    /\ out' = NoOut
    /\ UNCHANGED <<comment, likes, karmaEvent, now, issued>>

\* (mutant) the karma insert of the DELETE branch without its guard
AfterDeleteAlways(deleted) == "create_karma"

\* "if deleted:" guards the karma insert of the DELETE branch
AfterDelete(deleted) == IF deleted > 0 THEN "create_karma" ELSE "commit"

\* deleted, _ = PostLike.objects.filter(post=post, user=request.user).delete()
DeleteLike(w) ==
    /\ wk[w].pc = "delete_like"
    /\ likes[PairOf(w)] > 0 => ~LockedByOther(w, PairOf(w))
    /\ wk' = [wk EXCEPT ![w] =
            [@ EXCEPT !.op = IF likes[PairOf(w)] > 0 THEN "del" ELSE "none",
                      !.deleted = likes[PairOf(w)],
                      !.liked = FALSE,
                      !.pc = AfterDelete(likes[PairOf(w)])]]
    /\ out' = NoOut
    /\ UNCHANGED <<comment, likes, karmaEvent, now, issued>>

\* KarmaEvent.objects.create(...), then liked = True / liked = False
CreateKarma(w) ==
    /\ wk[w].pc = "create_karma"
    /\ LET e == NewKarmaEvent(wk[w].kind, wk[w].method, wk[w].id, wk[w].user)
       IN  \E keep \in BOOLEAN :
             wk' = [wk EXCEPT ![w] =
                IF ExactlyOneTarget(e)
                THEN [@ EXCEPT !.ev = <<e>>, !.liked = (wk[w].method = "POST"),
                               !.pc = "commit"]
                ELSE Raised(w, "integrity", keep)]
    /\ out' = NoOut
    /\ UNCHANGED <<comment, likes, karmaEvent, now, issued>>

\* (mutant) the unlike's delete without its user filter: every like of the
\* target goes
AppliedToTarget(op, p) ==
    IF op = "ins" THEN [likes EXCEPT ![p] = @ + 1]
    ELSE IF op = "del"
         THEN [q \in Pairs |-> IF q[1] = p[1] /\ q[2] = p[2] THEN 0 ELSE likes[q]]
    ELSE likes

\* the rows a transaction's commit leaves in the like tables
Applied(op, p) ==
    IF op = "ins" THEN [likes EXCEPT ![p] = @ + 1]
    ELSE IF op = "del" THEN [likes EXCEPT ![p] = 0]
    ELSE likes

\* (mutant) the newest ledger row updated in place instead of a row created
LedgerUpdated(ev) ==
    IF ev = <<>> \/ karmaEvent = <<>> THEN karmaEvent \o ev
    ELSE [karmaEvent EXCEPT ![Len(karmaEvent)] = ev[1]]

\* the ledger once the transaction's KarmaEvent rows are committed: the
\* toggles only ever create rows
Ledger(ev) == karmaEvent \o ev

\* normal exit of "with transaction.atomic()": commit
Commit(w) ==
    /\ wk[w].pc = "commit"
    /\ likes' = Applied(wk[w].op, PairOf(w))
    /\ karmaEvent' = Ledger(wk[w].ev)
    /\ wk' = [wk EXCEPT ![w] = [@ EXCEPT !.op = "none", !.ev = <<>>,
                                         !.commit = Len(karmaEvent'),
                                         !.pc = "count"]]
    /\ out' = NoOut
    /\ UNCHANGED <<comment, now, issued>>

\* (mutant) the count taken before the atomic block instead of after it
CountedBefore(w) == wk[w].seen.count

\* like_count = PostLike.objects.filter(post=post).count(), after the
\* atomic block
Counted(w) == LikeCount(wk[w].kind, wk[w].id)

\* the count query, then return Response
Count(w) ==
    /\ wk[w].pc = "count"
    /\ wk' = [wk EXCEPT ![w] =
            [@ EXCEPT !.pc = "done",
                      !.resp = [status |-> 200, liked |-> wk[w].liked,
                                like_count |-> Counted(w)]]]
    /\ out' = NoOut
    /\ UNCHANGED <<comment, likes, karmaEvent, now, issued>>

\* time passes between requests (a request is short against the clock's unit)
Tick ==
    /\ now + TickHours <= MaxTime
    /\ \A w \in Workers : Free(w)
    /\ now' = now + TickHours
    /\ out' = NoOut
    /\ UNCHANGED <<comment, likes, karmaEvent, wk, issued>>

\* ------------------------------------------------------------ comments
\* (mutant) the parent looked up by id alone, in any post
ParentAnywhere(parent_id, post_id) == CommentExists(parent_id)

\* get_object_or_404(Comment, id=parent_id, post=post) finds the row
ParentFound(parent_id, post_id) ==
    CommentExists(parent_id) /\ comment[parent_id].post = post_id

\* create_comment: both lookups, then Comment.objects.create
create_comment(post_id, user, parent_id) ==
    LET arg == [post_id |-> post_id, user |-> user, parent_id |-> parent_id]
    IN  IF \/ post_id \notin PostIds
           \/ (parent_id # None /\ ~ParentFound(parent_id, post_id))
        THEN /\ out' = [view |-> "create_comment", arg |-> arg,
                        status |-> 404, body |-> <<>>]
             /\ UNCHANGED comment
        ELSE /\ comment' = Append(comment,
                     [post |-> post_id, author |-> user, parent |-> parent_id,
                      created_at |-> now])
             /\ out' = [view |-> "create_comment", arg |-> arg,
                        status |-> 201,
                        body |-> <<[id |-> Len(comment) + 1, author |-> user,
                                    created_at |-> now, like_count |-> 0,
                                    liked_by_me |-> FALSE, children |-> <<>>]>>]

CreateComment(post_id, user, parent_id) ==
    /\ Request
    /\ Len(comment) < MaxComments
    /\ create_comment(post_id, user, parent_id)
    /\ UNCHANGED <<likes, karmaEvent, now, wk>>

\* (mutant) the query without its filter(post=post)
RECURSIVE CommentsOfAll(_, _)
CommentsOfAll(post, n) ==
    IF n = 0 THEN <<>> ELSE Append(CommentsOfAll(post, n - 1), n)

\* Comment.objects.filter(post=post)...order_by('created_at'): the ids of the
\* post's comments, oldest first (ids are given in order of creation, and the
\* clock's unit is coarser than the time between two creations)
RECURSIVE CommentsOf(_, _)
CommentsOf(post, n) ==
    IF n = 0 THEN <<>>
    ELSE IF comment[n].post = post
         THEN Append(CommentsOf(post, n - 1), n)
         ELSE CommentsOf(post, n - 1)

\* (mutant) children put at the head of their parent's list
RECURSIVE PassPrepend(_, _, _, _)
PassPrepend(comments, i, roots, by_parent) ==
    IF i > Len(comments) THEN [roots |-> roots, by_parent |-> by_parent]
    ELSE LET c == comments[i] IN
         IF comment[c].parent = None
         THEN PassPrepend(comments, i + 1, Append(roots, c), by_parent)
         ELSE PassPrepend(comments, i + 1, roots,
                   [by_parent EXCEPT ![comment[c].parent] = <<c>> \o @])

\* the loop of build_comment_tree over comments[i..]: roots, and by_parent
\* as a function of the parent id (no entry reads as the empty list)
RECURSIVE Pass(_, _, _, _)
Pass(comments, i, roots, by_parent) ==
    IF i > Len(comments) THEN [roots |-> roots, by_parent |-> by_parent]
    ELSE LET c == comments[i] IN
         IF comment[c].parent = None
         THEN Pass(comments, i + 1, Append(roots, c), by_parent)
         ELSE Pass(comments, i + 1, roots,
                   [by_parent EXCEPT ![comment[c].parent] = Append(@, c)])

\* _comment_to_dict
RECURSIVE CommentToDict(_, _, _)
CommentToDict(c, by_parent, user) ==
    [id |-> c,
     author |-> comment[c].author,
     created_at |-> comment[c].created_at,
     like_count |-> LikeCount("comment", c),
     liked_by_me |-> likes[<<"comment", c, user>>] > 0,
     children |-> [k \in 1..Len(by_parent[c]) |->
                      CommentToDict(by_parent[c][k], by_parent, user)]]

\* build_comment_tree(post, user)
BuildCommentTree(post, user) ==
    LET comments == CommentsOf(post, Len(comment))
        built == Pass(comments, 1, <<>>, [c \in 1..Len(comment) |-> <<>>])
    IN  [k \in 1..Len(built.roots) |->
            CommentToDict(built.roots[k], built.by_parent, user)]

\* PostDetailView.retrieve
retrieve(pk, user) ==
    LET arg == [pk |-> pk, user |-> user]
    IN  out' = IF pk \in PostIds
               THEN [view |-> "post_detail", arg |-> arg, status |-> 200,
                     body |-> BuildCommentTree(pk, user)]
               ELSE [view |-> "post_detail", arg |-> arg, status |-> 404,
                     body |-> <<>>]

PostDetail(pk, user) ==
    /\ Request
    /\ retrieve(pk, user)
    /\ UNCHANGED <<comment, likes, karmaEvent, now, wk>>

\* --------------------------------------------------------- leaderboard
\* timedelta(hours=24) and the slice [:5]
WindowHours == 24
TopN == 5

\* (mutant) created_at__gt: a row exactly 24 hours old is left out
SinceStrict(since) ==
    {i \in 1..Len(karmaEvent) : karmaEvent[i].created_at > since}

\* KarmaEvent.objects.filter(created_at__gte=since): positions in the ledger
Since(since) == {i \in 1..Len(karmaEvent) : karmaEvent[i].created_at >= since}

\* .values('user').annotate(karma=Sum('delta')): one row per user with events
Karma(u, since) ==
    LET mine == {i \in Since(since) : karmaEvent[i].user = u}
    IN  SumOver([i \in mine |-> karmaEvent[i].delta], mine)

Grouped(since) == {karmaEvent[i].user : i \in Since(since)}

\* .order_by('-karma'): any order of the rows with karma not increasing;
\* rows of equal karma come in the order the database happens to give
RECURSIVE Sorted(_, _)
Sorted(G, since) ==
    IF G = {} THEN {<<>>}
    ELSE LET top == {u \in G : \A v \in G : Karma(u, since) >= Karma(v, since)}
         IN  UNION {{<<u>> \o r : r \in Sorted(G \ {u}, since)} : u \in top}

Ordered(since) == Sorted(Grouped(since), since)

\* (mutant) the query without its slice
TopAll(r) == r

\* [:5]
Top(r) == SubSeq(r, 1, IF Len(r) < TopN THEN Len(r) ELSE TopN)

\* leaderboard: rows[:5], then the payload of the rows whose user resolves
Leaderboard ==
    /\ Request
    /\ LET since == now - WindowHours IN
       \E r \in Ordered(since) :
          LET rows == Top(r)
              found == SelectSeq(rows, LAMBDA u : u \in Accounts)
          IN  out' = [view |-> "leaderboard", arg |-> <<>>, status |-> 200,
                      body |-> [k \in 1..Len(found) |->
                                  [user |-> found[k],
                                   karma |-> Karma(found[k], since)]]]
    /\ UNCHANGED <<comment, likes, karmaEvent, now, wk>>

Next ==
    \/ \E w \in Workers, m \in Methods, k \in Kinds, u \in Users :
            \E i \in Names(k) : Receive(w, m, k, i, u)
    \/ \E w \in Workers : InsertLike(w)
    \/ \E w \in Workers : DeleteLike(w)
    \/ \E w \in Workers : CreateKarma(w)
    \/ \E w \in Workers : Commit(w)
    \/ \E w \in Workers : Count(w)
    \/ \E p \in PostNames, u \in Users, c \in {None} \cup CommentNames :
            CreateComment(p, u, c)
    \/ \E p \in PostNames, u \in Users : PostDetail(p, u)
    \/ Leaderboard

\* the requests at one instant of the clock
Spec == Init /\ [][Next]_vars

\* the requests with time passing between them
NextClock == Next \/ Tick

SpecClock == Init /\ [][NextClock]_vars

\* ---------------------------------------------------- storage failures
\* A statement of the atomic block fails for a reason other than the
\* uniqueness conflict: with an IntegrityError ("integrity": a foreign key,
\* a check or a not-null violation) or with any other error ("error").
\* After a caught error the transaction still holds the rows it wrote
\* where the database undoes the failed statement alone (keep), and holds
\* nothing where the error aborts the transaction.
StatementFails(w, e, keep) ==
    /\ wk[w].pc \in {"insert_like", "delete_like", "create_karma"}
    /\ wk' = [wk EXCEPT ![w] = Raised(w, e, keep)]
    /\ out' = NoOut
    /\ UNCHANGED <<comment, likes, karmaEvent, now, issued>>

\* the commit itself fails: the exception leaves the atomic block
CommitFails(w) ==
    /\ wk[w].pc = "commit"
    /\ wk' = [wk EXCEPT ![w] = [@ EXCEPT !.op = "none", !.ev = <<>>,
                                         !.exc = "error", !.pc = "done",
                                         !.resp = Error500]]
    /\ out' = NoOut
    /\ UNCHANGED <<comment, likes, karmaEvent, now, issued>>

NextFault ==
    \/ Next
    \/ \E w \in Workers, e \in {"integrity", "error"}, keep \in BOOLEAN :
            StatementFails(w, e, keep)
    \/ \E w \in Workers : CommitFails(w)

SpecFault == Init /\ [][NextFault]_vars

\* ------------------------------------------------------ comment threads
\* create_comment and the post detail alone, on threads of MaxThread comments
ThreadComment(post_id, user, parent_id) ==
    /\ Len(comment) < MaxThread
    /\ create_comment(post_id, user, parent_id)
    /\ UNCHANGED <<likes, karmaEvent, now, wk, issued>>

ThreadDetail(pk, user) ==
    /\ retrieve(pk, user)
    /\ UNCHANGED <<comment, likes, karmaEvent, now, wk, issued>>

NextThread ==
    \/ \E p \in ThreadPostNames, u \in Users, c \in {None} \cup 1..MaxThread :
            ThreadComment(p, u, c)
    \/ \E p \in ThreadPostNames, u \in Users : ThreadDetail(p, u)

SpecThread == Init /\ [][NextThread]_vars

\* ------------------------------------------------- leaderboard over ledgers
\* The leaderboard read on the ledgers that likes and unlikes of the
\* accounts' posts leave behind.  Instant(k) is the k-th instant of the clock.
Instant(k) == k * TickHours

\* the ledger row of a toggle of the post of account a, committed at hour t
RowAt(a, method, actor, t) ==
    [NewKarmaEvent("post", method, a, actor) EXCEPT !.created_at = t]

\* what the post of account a has been through: nothing; a like long ago; a
\* like long ago taken back later; two likes later on
History(a, k) ==
    CASE k = 0 -> <<>>
      [] k = 1 -> <<RowAt(a, "POST", 1, Instant(0))>>
      [] k = 2 -> <<RowAt(a, "POST", 1, Instant(0)),
                    RowAt(a, "DELETE", 1, Instant(1))>>
      [] k = 3 -> <<RowAt(a, "POST", 1, Instant(1)),
                    RowAt(a, "POST", 2, Instant(2))>>

\* the rows of the histories h committed at hour t, for the accounts 1..a
RECURSIVE RowsAt(_, _, _)
RowsAt(h, a, t) ==
    IF a = 0 THEN <<>>
    ELSE RowsAt(h, a - 1, t) \o SelectSeq(h[a], LAMBDA e : e.created_at = t)

\* the ledger in commit order
LedgerOf(h) ==
    LET n == Cardinality(Accounts)
    IN  RowsAt(h, n, Instant(0)) \o RowsAt(h, n, Instant(1))
            \o RowsAt(h, n, Instant(2))

\* the like rows the histories leave: the pair's last toggle was a like
LikesOf(h) ==
    [p \in Pairs |->
        IF p[1] = "post" /\ p[2] \in Accounts
        THEN LET mine == SelectSeq(h[p[2]], LAMBDA e : e.actor = p[3])
             IN  IF mine # <<>> /\ mine[Len(mine)].delta > 0 THEN 1 ELSE 0
        ELSE 0]

InitBoard ==
    /\ now \in {Instant(2), Instant(3)} \cap 0..MaxTime
    /\ \E s \in [Accounts -> 0..3] :
          LET h == [a \in Accounts |-> History(a, s[a])]
          IN  /\ karmaEvent = LedgerOf(h)
              /\ likes = LikesOf(h)
    /\ comment = <<>>
    /\ wk = [w \in Workers |-> Idle]
    /\ issued = MaxRequests - 1
    /\ out = NoOut

\* the run's budget leaves one request: the leaderboard read
SpecBoard == InitBoard /\ [][Leaderboard]_vars

\* ================================================================ claims
\* worker w takes this step
Steps(w) == wk'[w] # wk[w]

\* the target of a ledger row, as <<kind, id>>
Target(e) == IF e.post # None THEN <<"post", e.post>> ELSE <<"comment", e.comment>>

\* positions of the ledger rows of pair p = <<kind, id, user>>
EventsOf(p) ==
    {i \in 1..Len(karmaEvent) :
        karmaEvent[i].actor = p[3] /\ Target(karmaEvent[i]) = <<p[1], p[2]>>}

NetKarma(p) == SumOver([i \in EventsOf(p) |-> karmaEvent[i].delta], EventsOf(p))

LikeDelta(kind) == IF kind = "post" THEN PostLikeDelta ELSE CommentLikeDelta

\* C1: in every reachable state, under any interleaving of like and unlike
\* requests, each (target, user) pair has at most one committed like row.
C1_AtMostOneLike == \A p \in Pairs : likes[p] <= 1

\* C1 witness: a like request hit the uniqueness conflict on a pair whose
\* single row is committed.
C1_Witness ==
    \E w \in Workers : wk[w].exc = "unique" /\ likes[PairOf(w)] = 1

\* two workers hold like requests for the same pair, both received with no
\* row for the pair and with the same ledger (so nothing was committed
\* between the two arrivals), and both have answered
TwoLikesSettled(v, w) ==
    /\ v # w
    /\ wk[v].pc = "done" /\ wk[w].pc = "done"
    /\ wk[v].method = "POST" /\ wk[w].method = "POST"
    /\ wk[v].resp.status # 404 /\ wk[w].resp.status # 404
    /\ PairOf(v) = PairOf(w)
    /\ wk[v].seen = wk[w].seen
    /\ wk[v].seen.rows = 0

\* C2: two like requests issued concurrently for a pair without a row end
\* with exactly one row for the pair, exactly one new ledger row, which is the
\* positive one of the pair, both reporting liked = true, and the target's
\* like count one above the count before.
C2_ConcurrentLikesOnce ==
    \A v, w \in Workers :
        TwoLikesSettled(v, w) =>
            /\ likes[PairOf(w)] = 1
            /\ Len(karmaEvent) = wk[w].seen.ledger + 1
            /\ Len(karmaEvent) \in EventsOf(PairOf(w))
            /\ karmaEvent[Len(karmaEvent)].delta = LikeDelta(wk[w].kind)
            /\ wk[v].resp.status = 200 /\ wk[v].resp.liked
            /\ wk[w].resp.status = 200 /\ wk[w].resp.liked
            /\ LikeCount(wk[w].kind, wk[w].id) = wk[w].seen.count + 1

\* C2 witness: two such requests have settled, one of them on the conflict.
C2_Witness ==
    \E v, w \in Workers : TwoLikesSettled(v, w) /\ wk[v].exc = "unique"

C4_KarmaMatchesLikes ==
    \A p \in Pairs :
        NetKarma(p) = IF likes[p] > 0 THEN LikeDelta(p[1]) ELSE 0

\* C4 witness: a pair was liked and unliked again, two ledger rows netting 0.
C4_Witness ==
    \E p \in Pairs : likes[p] = 0 /\ Cardinality(EventsOf(p)) = 2

\* C5: a like request whose insert finds the pair's row is answered
\* liked = true with status 200, and none of its steps changes the like
\* tables or the ledger.
C5_DuplicateLikeIsNoop ==
    [][\A w \in Workers :
          /\ (Steps(w) /\ wk[w].pc = "insert_like" /\ likes[PairOf(w)] > 0)
                => /\ wk'[w].exc = "unique"
                   /\ wk'[w].pc = "commit"
          /\ (Steps(w) /\ wk[w].exc = "unique" /\ wk[w].pc # "done")
                => /\ UNCHANGED <<likes, karmaEvent>>
                   /\ wk'[w].pc = "done"
                        => wk'[w].resp = [status |-> 200, liked |-> TRUE,
                                          like_count |->
                                              LikeCount(wk[w].kind, wk[w].id)]]_vars

\* C5 witness: a duplicate like has been answered.
C5_Witness ==
    \E w \in Workers :
        wk[w].pc = "done" /\ wk[w].exc = "unique" /\ wk[w].resp.liked

\* the unlike request of worker w found no row to delete
NothingDeleted(w) ==
    /\ wk[w].method = "DELETE"
    /\ wk[w].pc \in {"commit", "count"}
    /\ wk[w].deleted = 0

\* C6: an unlike request whose delete finds no row for the pair is answered
\* liked = false, and none of its steps changes the like tables or the
\* ledger.
C6_UnlikeWithoutLikeIsNoop ==
    [][\A w \in Workers :
          /\ (Steps(w) /\ wk[w].pc = "delete_like" /\ likes[PairOf(w)] = 0)
                => /\ UNCHANGED <<likes, karmaEvent>>
                   /\ wk'[w].pc = "commit" /\ wk'[w].deleted = 0
          /\ (Steps(w) /\ NothingDeleted(w))
                => /\ UNCHANGED <<likes, karmaEvent>>
                   /\ wk'[w].pc = "done"
                        => wk'[w].resp = [status |-> 200, liked |-> FALSE,
                                          like_count |->
                                              LikeCount(wk[w].kind, wk[w].id)]]_vars

\* C6 witness: an unlike that found no row has been answered, on a pair that
\* another unlike emptied (the ledger holds the pair's like and unlike).
C6_Witness ==
    \E w \in Workers :
        /\ wk[w].pc = "done" /\ wk[w].method = "DELETE"
        /\ wk[w].resp.status = 200 /\ wk[w].deleted = 0
        /\ Cardinality(EventsOf(PairOf(w))) = 2

\* C7: a like request hit by a persistence failure other than the
\* uniqueness conflict is answered with a failure, never with liked = true.
C7_FailureSurfaced ==
    \A w \in Workers :
        (wk[w].pc = "done" /\ wk[w].exc \in {"integrity", "error"})
            => wk[w].resp.status # 200

\* C8: the ledger is append-only: every step of every operation leaves the
\* rows already committed in place and unchanged.
C8_LedgerAppendOnly ==
    [][/\ Len(karmaEvent') >= Len(karmaEvent)
       /\ SubSeq(karmaEvent', 1, Len(karmaEvent)) = karmaEvent]_vars

\* C8 witness: a row was committed after an earlier one.
C8_Witness == Len(karmaEvent) >= 2

\* C9: every ledger row has exactly one of post and comment set: the rows
\* of post_like have post set and comment null, the rows of comment_like
\* have comment set and post null.
C9_ExactlyOneTarget ==
    \A i \in 1..Len(karmaEvent) :
        LET e == karmaEvent[i] IN
        /\ (e.post = None) # (e.comment = None)
        /\ e.event_type \in {"post_like", "post_unlike"}
              => (e.post # None /\ e.comment = None)
        /\ e.event_type \in {"comment_like", "comment_unlike"}
              => (e.comment # None /\ e.post = None)

\* C9 witness: the ledger holds a row of a post and a row of a comment.
C9_Witness ==
    /\ \E i \in 1..Len(karmaEvent) : karmaEvent[i].event_type = "post_like"
    /\ \E i \in 1..Len(karmaEvent) : karmaEvent[i].event_type = "comment_like"

\* C10: the row a toggle adds to the ledger credits the author of the
\* target, names the acting user as actor, names the target, and carries
\* (post_like, +5) or (comment_like, +1) when the toggle added the pair's like
\* row and (post_unlike, -5) or (comment_unlike, -1) when it removed it.
C10_KarmaRowMatchesToggle ==
    [][Len(karmaEvent') > Len(karmaEvent) =>
          \E w \in Workers :
             LET e == karmaEvent'[Len(karmaEvent')]
                 p == PairOf(w)
             IN  /\ Steps(w) /\ wk[w].pc = "commit"
                 /\ Len(karmaEvent') = Len(karmaEvent) + 1
                 /\ e.user = (IF p[1] = "post" THEN PostAuthor(p[2])
                              ELSE comment[p[2]].author)
                 /\ e.actor = p[3]
                 /\ Target(e) = <<p[1], p[2]>>
                 /\ \/ /\ likes'[p] > likes[p]
                       /\ e.event_type = (IF p[1] = "post" THEN "post_like"
                                          ELSE "comment_like")
                       /\ e.delta = (IF p[1] = "post" THEN 5 ELSE 1)
                    \/ /\ likes'[p] < likes[p]
                       /\ e.event_type = (IF p[1] = "post" THEN "post_unlike"
                                          ELSE "comment_unlike")
                       /\ e.delta = (IF p[1] = "post" THEN -5 ELSE -1)]_vars

\* C10 witness: the ledger holds a self-like (actor = beneficiary) and a like
\* of another user's comment.
C10_Witness ==
    /\ \E i \in 1..Len(karmaEvent) : karmaEvent[i].actor = karmaEvent[i].user
    /\ \E i \in 1..Len(karmaEvent) :
          /\ karmaEvent[i].event_type = "comment_like"
          /\ karmaEvent[i].actor # karmaEvent[i].user
\* the like of worker v found no row of its pair and committed one, with
\* nothing else committed meanwhile; the unlike of worker w, for the same
\* pair, arrived after that commit with nothing else committed in between,
\* and has answered
RoundTrip(v, w) ==
    /\ v # w
    /\ wk[v].method = "POST" /\ wk[v].pc \in {"count", "done"}
    /\ wk[v].exc = "none" /\ wk[v].resp.status # 404
    /\ wk[v].seen.rows = 0
    /\ wk[v].commit = wk[v].seen.ledger + 1
    /\ wk[w].method = "DELETE" /\ wk[w].pc = "done"
    /\ wk[w].resp.status = 200
    /\ PairOf(w) = PairOf(v)
    /\ wk[w].seen.rows = 1
    /\ wk[w].seen.ledger = wk[v].commit

\* C11: from a state where the user has no like on the target, a like
\* followed by an unlike by the same user (no other toggle on the target in
\* between) answers the like count from before the like, leaves the like
\* tables as they were at the start, and adds exactly two karma rows for the
\* pair, whose deltas sum to zero.
C11_LikeUnlikeRoundTrip ==
    \A v, w \in Workers :
        RoundTrip(v, w) =>
            LET n == wk[v].seen.ledger IN
            /\ wk[w].resp.like_count = wk[v].seen.count
            /\ ~wk[w].resp.liked
            /\ likes = wk[v].seen.likes
            /\ Len(karmaEvent) = n + 2
            /\ Target(karmaEvent[n + 1]) = <<wk[v].kind, wk[v].id>>
            /\ Target(karmaEvent[n + 2]) = <<wk[v].kind, wk[v].id>>
            /\ karmaEvent[n + 1].actor = wk[v].user
            /\ karmaEvent[n + 2].actor = wk[v].user
            /\ karmaEvent[n + 1].delta + karmaEvent[n + 2].delta = 0

\* a round trip on a target that another user's like stays on
C11_Witness ==
    \E v, w \in Workers : RoundTrip(v, w) /\ wk[v].seen.count = 1

\* no other request's karma row for the target of worker w was committed
\* since w's request arrived
NoOtherToggle(w) ==
    \A i \in (wk[w].seen.ledger + 1)..Len(karmaEvent) :
        i # wk[w].commit => Target(karmaEvent[i]) # <<wk[w].kind, wk[w].id>>

\* the committed like rows of a target, one per user holding a row
CommittedLikes(kind, id) ==
    Cardinality({u \in Users : likes[<<kind, id, u>>] > 0})

\* C12: the like_count a toggle answers is the number of committed like rows
\* of the target in a state after the toggle's own commit; with no other
\* toggle on the target running concurrently, a like that inserted answers
\* the previous count plus one and an unlike that removed answers the
\* previous count minus one.
C12_CountAfterOwnCommit ==
    [][\A w \in Workers :
          wk[w].pc = "count" /\ wk'[w].pc = "done" =>
            /\ wk[w].commit >= wk[w].seen.ledger
            /\ wk'[w].resp.like_count = CommittedLikes(wk[w].kind, wk[w].id)
            /\ (NoOtherToggle(w) /\ wk[w].method = "POST" /\ wk[w].exc = "none")
                  => wk'[w].resp.like_count = wk[w].seen.count + 1
            /\ (NoOtherToggle(w) /\ wk[w].method = "DELETE" /\ wk[w].deleted > 0)
                  => wk'[w].resp.like_count = wk[w].seen.count - 1]_vars

\* a like answered 2 on a target that had one like, and an unlike answered 1
\* on a target that had two
C12_Witness ==
    \E v, w \in Workers :
        /\ wk[v].pc = "done" /\ wk[v].method = "POST" /\ wk[v].exc = "none"
        /\ wk[v].resp.status = 200 /\ wk[v].seen.count = 1
        /\ wk[v].resp.like_count = 2
        /\ wk[w].pc = "done" /\ wk[w].method = "DELETE" /\ wk[w].deleted > 0
        /\ wk[w].seen.count = 2 /\ wk[w].resp.like_count = 1

\* row i of the ledger is at most 24 hours old and credits user u
Counts(u, i) ==
    /\ karmaEvent[i].user = u
    /\ now - karmaEvent[i].created_at <= 24

\* the deltas of the rows that count for u, summed over rows 1..i
RECURSIVE WindowKarma(_, _)
WindowKarma(u, i) ==
    IF i = 0 THEN 0
    ELSE WindowKarma(u, i - 1) + (IF Counts(u, i) THEN karmaEvent[i].delta ELSE 0)

\* the beneficiaries with at least one row in the window
WindowUsers == {karmaEvent[i].user : i \in {j \in 1..Len(karmaEvent) :
                                              Counts(karmaEvent[j].user, j)}}

\* C13: the karma of every leaderboard entry is the sum of the deltas of
\* exactly the ledger rows that credit the entry's user and are at most 24
\* hours old (a row exactly 24 hours old counts, older rows do not), and a
\* user with no row in the window has no entry.
C13_WindowSum ==
    out.view = "leaderboard" =>
        \A k \in 1..Len(out.body) :
            /\ out.body[k].karma = WindowKarma(out.body[k].user, Len(karmaEvent))
            /\ out.body[k].user \in WindowUsers

\* an entry whose user has a row older than the window and a row exactly
\* 24 hours old
C13_Witness ==
    /\ out.view = "leaderboard"
    /\ \E k \in 1..Len(out.body) : \E i, j \in 1..Len(karmaEvent) :
          /\ karmaEvent[i].user = out.body[k].user
          /\ karmaEvent[j].user = out.body[k].user
          /\ now - karmaEvent[i].created_at > 24
          /\ now - karmaEvent[j].created_at = 24

\* C14: the leaderboard has at most 5 entries, exactly min(5, number of
\* beneficiaries with a row in the window) of them, in order of
\* non-increasing karma, and no beneficiary left out has a window sum
\* greater than an entry's.
C14_TopFive ==
    out.view = "leaderboard" =>
        LET b == out.body
            n == Len(out.body)
            included == {b[k].user : k \in 1..n}
        IN  /\ n <= 5
            /\ n = IF Cardinality(WindowUsers) < 5
                   THEN Cardinality(WindowUsers) ELSE 5
            /\ Cardinality(included) = n
            /\ \A k \in 1..(n - 1) : b[k].karma >= b[k + 1].karma
            /\ \A u \in WindowUsers \ included : \A k \in 1..n :
                   WindowKarma(u, Len(karmaEvent)) <= b[k].karma

\* six beneficiaries in the window, five entries of unequal karma
C14_Witness ==
    /\ out.view = "leaderboard"
    /\ Cardinality(WindowUsers) = 6
    /\ Len(out.body) = 5
    /\ out.body[1].karma > out.body[5].karma

\* C15: the leaderboard order is a function of the ledger and the clock:
\* entries of equal karma come in ascending order of user id.
C15_TiesByUserId ==
    out.view = "leaderboard" =>
        \A k, l \in 1..Len(out.body) :
            (k < l /\ out.body[k].karma = out.body[l].karma)
                => out.body[k].user < out.body[l].user

\* the ids of a list of nodes of the answered tree
Ids(nodes) == [k \in 1..Len(nodes) |-> nodes[k].id]

\* the comments of post pk whose parent is parent, oldest first
ChildrenOf(pk, parent) ==
    SelectSeq([c \in 1..Len(comment) |-> c],
              LAMBDA c : comment[c].post = pk /\ comment[c].parent = parent)

\* the nodes are the children of parent, in order, and so on below them
RECURSIVE Nested(_, _, _)
Nested(nodes, pk, parent) ==
    /\ Ids(nodes) = ChildrenOf(pk, parent)
    /\ \A k \in 1..Len(nodes) : Nested(nodes[k].children, pk, nodes[k].id)

\* C16: build_comment_tree answers the post's parentless comments as roots,
\* in the order of the flat list, and every node's children are exactly the
\* comments whose parent is that node, in the order of the flat list, at
\* every depth.
C16_TreeShape ==
    (out.view = "post_detail" /\ out.status = 200)
        => Nested(out.body, out.arg.pk, None)

\* the spec's example: roots A and B, C under A, D under C
C16_Witness ==
    /\ out.view = "post_detail" /\ out.status = 200
    /\ Len(out.body) = 2
    /\ Len(out.body[1].children) = 1
    /\ Len(out.body[1].children[1].children) = 1
    /\ Len(out.body[2].children) = 0

\* the request names a post or a comment that is not in its table
Missing(kind, id) ==
    IF kind = "post" THEN id \notin PostIds ELSE id \notin 1..Len(comment)

\* C17: a like or unlike that names a post or comment that does not exist
\* ends with not-found at once and changes no table.
C17_MissingTargetNotFound ==
    [][\A w \in Workers :
          (Free(w) /\ Steps(w) /\ Missing(wk'[w].kind, wk'[w].id)) =>
            /\ wk'[w].pc = "done"
            /\ wk'[w].resp.status = 404
            /\ wk'[w].op = "none" /\ wk'[w].ev = <<>>
            /\ UNCHANGED <<likes, karmaEvent, comment>>]_vars

\* a toggle of a missing comment answered 404 after a like was committed
C17_Witness ==
    \E w \in Workers :
        /\ wk[w].pc = "done" /\ wk[w].resp.status = 404
        /\ wk[w].kind = "comment"
        /\ Len(karmaEvent) > 0

\* the parent a create_comment request names is missing or of another post
BadParent(arg) ==
    /\ arg.parent_id # None
    /\ \/ arg.parent_id \notin 1..Len(comment)
       \/ comment[arg.parent_id].post # arg.post_id

\* C18: after any sequence of create_comment requests every comment with a
\* parent has it in the same post and created earlier, so the parent links
\* form a forest; a request whose parent_id is missing or of another post
\* answers 404 and creates no comment.
C18_ParentInSamePost ==
    [][/\ \A c \in 1..Len(comment') :
            comment'[c].parent # None =>
                /\ comment'[c].parent \in 1..(c - 1)
                /\ comment'[comment'[c].parent].post = comment'[c].post
                /\ comment'[comment'[c].parent].created_at <= comment'[c].created_at
       /\ (out'.view = "create_comment" /\ BadParent(out'.arg)) =>
            (out'.status = 404 /\ comment' = comment)]_vars

\* a reply exists, and a reply to a comment of another post was refused
C18_Witness ==
    /\ out.view = "create_comment" /\ out.status = 404
    /\ out.arg.post_id \in PostIds
    /\ out.arg.parent_id \in 1..Len(comment)
    /\ comment[out.arg.parent_id].post # out.arg.post_id
    /\ \E c \in 1..Len(comment) : comment[c].parent # None

\* the ids of the nodes of a forest, parents before children
RECURSIVE Flat(_)
Flat(nodes) ==
    IF nodes = <<>> THEN <<>>
    ELSE <<nodes[1].id>> \o Flat(nodes[1].children) \o Flat(Tail(nodes))

\* C19: the forest build_comment_tree answers for a post holds every comment
\* of the post exactly once and no comment of another post.
C19_ForestIsThePost ==
    (out.view = "post_detail" /\ out.status = 200) =>
        LET f == Flat(out.body)
        IN  /\ \A i, j \in 1..Len(f) : i # j => f[i] # f[j]
            /\ {f[i] : i \in 1..Len(f)} =
                   {c \in 1..Len(comment) : comment[c].post = out.arg.pk}

\* a forest with a reply, answered while another post has comments too
C19_Witness ==
    /\ out.view = "post_detail" /\ out.status = 200
    /\ \E k \in 1..Len(out.body) : Len(out.body[k].children) > 0
    /\ \E c \in 1..Len(comment) : comment[c].post # out.arg.pk

\* the ledger rows of pair p, in commit order
RowsOf(p) ==
    SelectSeq(karmaEvent,
              LAMBDA e : e.actor = p[3] /\ Target(e) = <<p[1], p[2]>>)

\* C20: under any interleaving, the karma rows of every (target, user) pair
\* alternate in ledger order, like first: like, unlike, like, ...
C20_LedgerAlternates ==
    \A p \in Pairs :
        \A k \in 1..Len(RowsOf(p)) :
            RowsOf(p)[k].event_type =
                EventType(p[1], IF k % 2 = 1 THEN "POST" ELSE "DELETE")

\* a pair liked, unliked and liked again
C20_Witness == \E p \in Pairs : Len(RowsOf(p)) = 3

====
